---- MODULE Spec2Model ----
(***************************************************************************)
(* Model of the character-customization catalog of wow.export:            *)
(*   src/src/js/db/DBLogic.js   loadTables and the catalog queries         *)
(* The module-level maps of DBLogic.js are the variables; loadTables is    *)
(* one action per resumption (the code between two awaits); every query    *)
(* is one action that leaves its return value in ret.                      *)
(***************************************************************************)
EXTENDS Integers, Sequences, FiniteSets

VARIABLES
    db,                             \* the DB2 tables of the loaded dataset (rows in file order)
    config,                         \* core.view.config flag and the listfile's ChrModel.db2 entry
    modelViewerChrCustCurrent,      \* core.view.modelViewerChrCustCurrent: the selected choice ids
    pc,                             \* where loadTables stands: "idle", "await1".."await12", "done", "failed"
    err,                            \* what rejected loadTables: "none", "parse", "TypeError"
    chrCustomizationAvailable,
    creatureDisplays,
    matResIDToFileDataID,
    fdidToChrModel,
    chrModelIDToTextureLayoutID,
    optionsByChrModel,
    optionToChoices,
    choiceToGeoset,
    choiceToChrCustMaterialID,
    chrCustMatMap,
    geosetMap,
    chrModelTexLayer,
    charComponentTextureSectionMap,
    ret,                            \* the last query: its name, arguments, and what it returned
    memo,                           \* a query result the caller has kept, to compare a later one with
    reloads,                        \* how many times loadTables was called again after it returned
    job,                            \* an export: variantTexture, exportCollision, the config flags it reads
    m2,                             \* this.m2: textures (file ids, patched in place) and the meshes' textures
    geosetMask,                     \* this.geosetMask: <<>> while undefined, <<mask>> once set
    cancelled,                      \* what helper.isCancelled() returns
    cancelledAt,                    \* where the export stood when it was cancelled, or "never"
    observed,                       \* a call of helper.isCancelled() has returned true
    xpc,                            \* where exportAsOBJ stands: the await it is suspended at
    texIndex,                       \* the texture iteration of exportTextures (0 before the loop)
    validTextures,                  \* exportTextures' validTextures, then what it returned
    mtl,                            \* the materials added to the MTLWriter
    fetched,                        \* the file ids asked of casc.getFile, in order
    written,                        \* the texture files saveToPNG was called for, in order
    obj,                            \* the meshes added to the OBJWriter (their material names)
    files                           \* the writers whose write() has been called

indices == <<creatureDisplays, matResIDToFileDataID, fdidToChrModel,
             chrModelIDToTextureLayoutID, optionsByChrModel, optionToChoices,
             choiceToGeoset, choiceToChrCustMaterialID, chrCustMatMap, geosetMap,
             chrModelTexLayer, charComponentTextureSectionMap>>

vars == <<db, config, modelViewerChrCustCurrent, pc, err, chrCustomizationAvailable, indices, ret,
          memo, reloads, job, m2, geosetMask, cancelled, cancelledAt, observed, xpc, texIndex,
          validTextures, mtl, fetched, written, obj, files>>

\* The state of an export (M2Exporter.js) and the state of the catalog (DBLogic.js).
exporter == <<job, m2, geosetMask, cancelled, cancelledAt, observed, xpc, texIndex, validTextures, mtl,
              fetched, written, obj, files>>

catalog == <<db, config, modelViewerChrCustCurrent, pc, err, chrCustomizationAvailable, indices,
             ret, memo, reloads>>

(***************************************************************************)
(* JavaScript Map / sparse Array as a function with a finite domain.       *)
(***************************************************************************)
EmptyMap == <<>>

Has(m, k) == k \in DOMAIN m

Put(m, k, v) == [x \in (DOMAIN m) \cup {k} |-> IF x = k THEN v ELSE m[x]]

\* Map.get / array read: <<v>> when present, <<>> for undefined.
Get(m, k) == IF k \in DOMAIN m THEN <<m[k]>> ELSE <<>>

\* WDCReader.getRow(id): the row with that ID as <<row>>, or <<>> for null.
GetRow(rows, id) ==
    LET hit == {i \in 1..Len(rows) : rows[i].ID = id}
    IN  IF hit = {} THEN <<>> ELSE <<rows[CHOOSE i \in hit : TRUE]>>

(***************************************************************************)
(* Strings, as the geoset key uses them: a string is a sequence of         *)
(* characters; Number.prototype.toString, String.prototype.padStart and    *)
(* Number(string) on decimal integers.                                     *)
(***************************************************************************)
DigitChars == <<"0", "1", "2", "3", "4", "5", "6", "7", "8", "9">>

IsDigit(c) == \E d \in 1..10 : DigitChars[d] = c

DigitValue(c) == (CHOOSE d \in 1..10 : DigitChars[d] = c) - 1

RECURSIVE NatToString(_)
NatToString(n) ==
    IF n < 10 THEN <<DigitChars[n + 1]>>
    ELSE Append(NatToString(n \div 10), DigitChars[(n % 10) + 1])

NumberToString(n) == IF n < 0 THEN <<"-">> \o NatToString(0 - n) ELSE NatToString(n)

RECURSIVE Repeat(_, _)
Repeat(c, n) == IF n <= 0 THEN <<>> ELSE <<c>> \o Repeat(c, n - 1)

PadStart(s, targetLength, c) == Repeat(c, targetLength - Len(s)) \o s

RECURSIVE DigitsToNat(_, _)
DigitsToNat(s, acc) ==
    IF s = <<>> THEN acc ELSE DigitsToNat(Tail(s), acc * 10 + DigitValue(Head(s)))

AllDigits(s) == \A i \in 1..Len(s) : IsDigit(s[i])

\* Number(str): a decimal integer literal with an optional sign, NaN otherwise.
StringToNumber(s) ==
    IF s = <<>> THEN [kind |-> "number", v |-> 0]
    ELSE IF AllDigits(s) THEN [kind |-> "number", v |-> DigitsToNat(s, 0)]
    ELSE IF Head(s) = "-" /\ Len(s) > 1 /\ AllDigits(Tail(s))
         THEN [kind |-> "number", v |-> 0 - DigitsToNat(Tail(s), 0)]
    ELSE [kind |-> "NaN"]

\* Mutant of GeosetKey: the two numbers concatenated without padding.
GeosetKeyUnpadded(row) ==
    StringToNumber(NumberToString(row.GeosetType) \o NumberToString(row.GeosetID))

\* DBLogic.js:198-200
GeosetKey(row) ==
    StringToNumber(PadStart(NumberToString(row.GeosetType), 2, "0")
                   \o PadStart(NumberToString(row.GeosetID), 2, "0"))

(***************************************************************************)
(* loadTables, the code between two awaits as one operator each.           *)
(***************************************************************************)

\* DBLogic.js:55-61 (the local creatureGeosetMap)
RECURSIVE BuildCreatureGeosetMap(_, _)
BuildCreatureGeosetMap(rows, m) ==
    IF rows = <<>> THEN m
    ELSE LET geosetRow == Head(rows)
             k  == geosetRow.CreatureDisplayInfoID
             m1 == IF Has(m, k) THEN m ELSE Put(m, k, <<>>)
         IN  BuildCreatureGeosetMap(Tail(rows),
                 Put(m1, k, Append(m1[k], (geosetRow.GeosetIndex + 1) * 100 + geosetRow.GeosetValue)))

\* DBLogic.js:69-76 (the locals creatureDisplayInfoMap and modelIDToDisplayInfoMap)
RECURSIVE BuildCreatureDisplayInfoMap(_, _)
BuildCreatureDisplayInfoMap(rows, m) ==
    IF rows = <<>> THEN m
    ELSE LET displayRow == Head(rows)
         IN  BuildCreatureDisplayInfoMap(Tail(rows),
                 Put(m, displayRow.ID,
                     [ID |-> displayRow.ID, modelID |-> displayRow.ModelID,
                      textures |-> SelectSeq(displayRow.TextureVariationFileDataID, LAMBDA e : e > 0),
                      extraGeosets |-> <<>>]))

RECURSIVE BuildModelIDToDisplayInfoMap(_, _)
BuildModelIDToDisplayInfoMap(rows, m) ==
    IF rows = <<>> THEN m
    ELSE LET displayRow == Head(rows)
             k == displayRow.ModelID
         IN  BuildModelIDToDisplayInfoMap(Tail(rows),
                 IF Has(m, k) THEN Put(m, k, Append(m[k], displayRow.ID))
                 ELSE Put(m, k, <<displayRow.ID>>))

\* DBLogic.js:88-103: the displays of one model row appended under its file id.
\* extraGeosets is <<>> while the property is unset and <<list>> once assigned.
RECURSIVE PushDisplays(_, _, _, _, _, _)
PushDisplays(displayIDs, modelRow, displayMap, geosets, cd, i) ==
    IF i > Len(displayIDs) THEN cd
    ELSE LET displayID == displayIDs[i]
             d0 == displayMap[displayID]
             display == IF modelRow.CreatureGeosetDataID > 0
                        THEN [d0 EXCEPT !.extraGeosets =
                                 <<IF Has(geosets, displayID) THEN geosets[displayID] ELSE <<>>>>]
                        ELSE d0
             fileDataID == modelRow.FileDataID
             cd1 == IF Has(cd, fileDataID) THEN Put(cd, fileDataID, Append(cd[fileDataID], display))
                    ELSE Put(cd, fileDataID, <<display>>)
         IN  PushDisplays(displayIDs, modelRow, displayMap, geosets, cd1, i + 1)

\* DBLogic.js:82-105
RECURSIVE BuildCreatureDisplays(_, _, _, _, _)
BuildCreatureDisplays(modelRows, byModel, displayMap, geosets, cd) ==
    IF modelRows = <<>> THEN cd
    ELSE LET modelRow == Head(modelRows)
         IN  BuildCreatureDisplays(Tail(modelRows), byModel, displayMap, geosets,
                 IF Has(byModel, modelRow.ID)
                 THEN PushDisplays(byModel[modelRow.ID], modelRow, displayMap, geosets, cd, 1)
                 ELSE cd)

\* DBLogic.js:113-120
RECURSIVE BuildMatResIDToFileDataID(_, _)
BuildMatResIDToFileDataID(rows, m) ==
    IF rows = <<>> THEN m
    ELSE LET textureFileDataRow == Head(rows)
         IN  BuildMatResIDToFileDataID(Tail(rows),
                 IF textureFileDataRow.UsageType # 0 THEN m
                 ELSE Put(m, textureFileDataRow.MaterialResourcesID, textureFileDataRow.ID))

\* DBLogic.js:158-164: the authored label, or "Choice " + OrderIndex.
ChoiceLabel(choiceRow) ==
    IF choiceRow.Name_lang # "" THEN <<choiceRow.Name_lang>>
    ELSE <<"Choice ">> \o NumberToString(choiceRow.OrderIndex)

\* DBLogic.js:154-167
RECURSIVE ChoiceList(_, _)
ChoiceList(choiceRows, optionID) ==
    IF choiceRows = <<>> THEN <<>>
    ELSE LET choiceRow == Head(choiceRows)
         IN  (IF choiceRow.ChrCustomizationOptionID # optionID THEN <<>>
              ELSE <<[id |-> choiceRow.ID, label |-> ChoiceLabel(choiceRow)]>>)
             \o ChoiceList(Tail(choiceRows), optionID)

\* DBLogic.js:142-170: st = [opts |-> optionsByChrModel, choices |-> optionToChoices]
RECURSIVE OptionLoop(_, _, _, _)
OptionLoop(optionRows, choiceRows, chrModelID, st) ==
    IF optionRows = <<>> THEN st
    ELSE LET optionRow == Head(optionRows)
             k  == optionRow.ChrModelID
             o1 == IF Has(st.opts, k) THEN st.opts ELSE Put(st.opts, k, <<>>)
             o2 == Put(o1, k, Append(o1[k], [id |-> optionRow.ID, name |-> optionRow.Name_lang]))
         IN  OptionLoop(Tail(optionRows), choiceRows, chrModelID,
                 IF optionRow.ChrModelID # chrModelID THEN st
                 ELSE [opts |-> o2,
                       choices |-> Put(st.choices, optionRow.ID, ChoiceList(choiceRows, optionRow.ID))])

\* DBLogic.js:136-171. A ChrModel row whose display row or model-data row is
\* missing makes getRow return null, and reading a property of null throws.
\* st = [fdid, layout, opts, choices, thrown].
RECURSIVE ChrModelLoop(_, _, _)
ChrModelLoop(chrModelRows, d, st) ==
    IF chrModelRows = <<>> \/ st.thrown THEN st
    ELSE LET chrModelRow == Head(chrModelRows)
             displayRow  == GetRow(d.CreatureDisplayInfo, chrModelRow.DisplayID)
             modelRow    == IF displayRow = <<>> THEN <<>>
                            ELSE GetRow(d.CreatureModelData, displayRow[1].ModelID)
             oc == OptionLoop(d.ChrCustomizationOption, d.ChrCustomizationChoice, chrModelRow.ID,
                              [opts |-> st.opts, choices |-> st.choices])
         IN  ChrModelLoop(Tail(chrModelRows), d,
                 IF displayRow = <<>> \/ modelRow = <<>> THEN [st EXCEPT !.thrown = TRUE]
                 ELSE [fdid    |-> Put(st.fdid, modelRow[1].FileDataID, chrModelRow.ID),
                       layout  |-> Put(st.layout, chrModelRow.ID, chrModelRow.CharComponentTextureLayoutID),
                       opts    |-> oc.opts,
                       choices |-> oc.choices,
                       thrown  |-> FALSE])

\* DBLogic.js:178-192. st = [geo, mat, cmm, thrown]; a material row that is
\* missing throws at matRow.ID, after the element was appended to the list.
RECURSIVE ElementLoop(_, _, _)
ElementLoop(elementRows, materialRows, st) ==
    IF elementRows = <<>> \/ st.thrown THEN st
    ELSE LET e   == Head(elementRows)
             c   == e.ChrCustomizationChoiceID
             geo == IF e.ChrCustomizationGeosetID # 0
                    THEN Put(st.geo, c, e.ChrCustomizationGeosetID) ELSE st.geo
             mat == IF Has(st.mat, c) THEN Put(st.mat, c, Append(st.mat[c], e))
                    ELSE Put(st.mat, c, <<e>>)
             matRow == GetRow(materialRows, e.ChrCustomizationMaterialID)
         IN  ElementLoop(Tail(elementRows), materialRows,
                 IF e.ChrCustomizationMaterialID = 0 THEN [st EXCEPT !.geo = geo]
                 ELSE IF matRow = <<>> THEN [st EXCEPT !.geo = geo, !.mat = mat, !.thrown = TRUE]
                 ELSE [geo |-> geo, mat |-> mat, thrown |-> FALSE,
                       cmm |-> Put(st.cmm, matRow[1].ID,
                                   [ChrModelTextureTargetID |-> matRow[1].ChrModelTextureTargetID,
                                    MaterialResourcesID |-> matRow[1].MaterialResourcesID])])

\* DBLogic.js:197-201
RECURSIVE BuildGeosetMap(_, _)
BuildGeosetMap(rows, m) ==
    IF rows = <<>> THEN m
    ELSE BuildGeosetMap(Tail(rows), Put(m, Head(rows).ID, GeosetKey(Head(rows))))

\* DBLogic.js:206-212: indexed by layout id, then by the first texture target.
RECURSIVE BuildChrModelTexLayer(_, _)
BuildChrModelTexLayer(rows, m) ==
    IF rows = <<>> THEN m
    ELSE LET layerRow == Head(rows)
             k  == layerRow.CharComponentTextureLayoutsID
             m1 == IF Has(m, k) THEN m ELSE Put(m, k, EmptyMap)
         IN  BuildChrModelTexLayer(Tail(rows),
                 Put(m1, k, Put(m1[k], layerRow.ChrModelTextureTargetID[1], layerRow)))

\* DBLogic.js:217-223: per layout, a sparse array indexed by SectionType.
RECURSIVE BuildSectionMap(_, _)
BuildSectionMap(rows, m) ==
    IF rows = <<>> THEN m
    ELSE LET sectionRow == Head(rows)
             k  == sectionRow.CharComponentTextureLayoutID
             m1 == IF Has(m, k) THEN m ELSE Put(m, k, EmptyMap)
         IN  BuildSectionMap(Tail(rows), Put(m1, k, Put(m1[k], sectionRow.SectionType, sectionRow)))

(***************************************************************************)
(* The queries.  Each returns a record with a kind: "false" (the           *)
(* unavailable value), "undefined", "throw" (an uncaught TypeError), or a  *)
(* value.                                                                  *)
(***************************************************************************)
RetFalse == [kind |-> "false"]
RetUndefined == [kind |-> "undefined"]
RetThrow == [kind |-> "throw"]

\* JavaScript truthiness of a looked-up number: undefined and 0 are falsy.
Truthy(x) == x # <<>> /\ x[1] # 0

RECURSIVE Pow2(_)
Pow2(n) == IF n <= 0 THEN 1 ELSE 2 * Pow2(n - 1)

\* mask & (1 << sectionType) on Int32 operands (the shift count is taken mod 32).
BitTest(mask, sectionType) ==
    LET s == sectionType % 32
    IN  IF s = 31 THEN mask < 0
        ELSE IF mask >= 0 THEN (mask \div Pow2(s)) % 2 = 1
        ELSE ((0 - mask - 1) \div Pow2(s)) % 2 = 0

\* The indices of a sparse array in ascending order, as for...of visits them.
RECURSIVE SortedKeys(_)
SortedKeys(S) ==
    IF S = {} THEN <<>>
    ELSE LET lo == CHOOSE x \in S : \A y \in S : x <= y
         IN  <<lo>> \o SortedKeys(S \ {lo})

\* DBLogic.js:357: the entry of a layer without sections.
DefaultWidth == 1024
DefaultHeight == 512

WholeAtlasEntry(textureLayer, fileDataID) ==
    [TextureType |-> textureLayer.TextureType, FileDataID |-> fileDataID,
     size |-> <<DefaultWidth, DefaultHeight>>, position |-> <<0, 0>>]

\* DBLogic.js:360: the entry of a layer painted into one section.
SectionEntry(textureLayer, fileDataID, textureSection) ==
    [TextureType |-> textureLayer.TextureType, FileDataID |-> fileDataID,
     size |-> <<textureSection.Width, textureSection.Height>>,
     position |-> <<textureSection.X, textureSection.Y>>]

\* Mutant of SectionLoop: the mask -1 is not told apart, so it is tested
\* against each section like any other mask (all its bits are set).
RECURSIVE SectionLoopNoSentinel(_, _, _, _, _)
SectionLoopNoSentinel(keys, textureSections, textureLayer, fileDataID, skinMats) ==
    IF keys = <<>> THEN skinMats
    ELSE LET textureSection == textureSections[Head(keys)]
         IN  SectionLoopNoSentinel(Tail(keys), textureSections, textureLayer, fileDataID,
                 IF BitTest(textureLayer.TextureSectionTypeBitMask, textureSection.SectionType)
                 THEN Put(skinMats, textureLayer.Layer,
                          SectionEntry(textureLayer, fileDataID, textureSection))
                 ELSE skinMats)

\* A section loop that leaves an ordinal alone once it holds an entry.
RECURSIVE SectionLoopKeepFirst(_, _, _, _, _)
SectionLoopKeepFirst(keys, textureSections, textureLayer, fileDataID, skinMats) ==
    IF keys = <<>> THEN skinMats
    ELSE LET textureSection == textureSections[Head(keys)]
         IN  SectionLoopKeepFirst(Tail(keys), textureSections, textureLayer, fileDataID,
                 IF Has(skinMats, textureLayer.Layer) THEN skinMats
                 ELSE IF textureLayer.TextureSectionTypeBitMask = -1
                 THEN Put(skinMats, textureLayer.Layer, WholeAtlasEntry(textureLayer, fileDataID))
                 ELSE IF BitTest(textureLayer.TextureSectionTypeBitMask, textureSection.SectionType)
                 THEN Put(skinMats, textureLayer.Layer,
                          SectionEntry(textureLayer, fileDataID, textureSection))
                 ELSE skinMats)

\* DBLogic.js:350-363: the writes of one texture layer over the layout's sections.
RECURSIVE SectionLoop(_, _, _, _, _)
SectionLoop(keys, textureSections, textureLayer, fileDataID, skinMats) ==
    IF keys = <<>> THEN skinMats
    ELSE LET textureSection == textureSections[Head(keys)]
         IN  SectionLoop(Tail(keys), textureSections, textureLayer, fileDataID,
                 IF textureLayer.TextureSectionTypeBitMask = -1
                 THEN Put(skinMats, textureLayer.Layer, WholeAtlasEntry(textureLayer, fileDataID))
                 ELSE IF BitTest(textureLayer.TextureSectionTypeBitMask, textureSection.SectionType)
                 THEN Put(skinMats, textureLayer.Layer,
                          SectionEntry(textureLayer, fileDataID, textureSection))
                 ELSE skinMats)

\* DBLogic.js:342-364. st = [skinMats, thrown]; chrCustMatRows[i] is <<row>> or <<>>.
RECURSIVE MaterialLoop(_, _, _, _, _, _, _)
MaterialLoop(chrCustMatRows, i, textureLayout, textureSections, texLayer, matRes, st) ==
    IF i > Len(chrCustMatRows) \/ st.thrown THEN st
    ELSE LET row == chrCustMatRows[i]
             layers == Get(texLayer, textureLayout)
             textureLayer == Get(layers[1], row[1].ChrModelTextureTargetID)
         IN  MaterialLoop(chrCustMatRows, i + 1, textureLayout, textureSections, texLayer, matRes,
                 IF row = <<>> \/ layers = <<>> THEN [st EXCEPT !.thrown = TRUE]
                 ELSE IF textureLayer = <<>> THEN st
                 ELSE [st EXCEPT !.skinMats =
                          SectionLoop(SortedKeys(DOMAIN textureSections), textureSections,
                                      textureLayer[1], Get(matRes, row[1].MaterialResourcesID),
                                      st.skinMats)])

\* DBLogic.js:327-329
MaterialRows(materials, cmm) ==
    [i \in 1..Len(materials) |-> Get(cmm, materials[i].ChrCustomizationMaterialID)]

\* DBLogic.js:318-368
getSkinMaterialsForChoice(modelFileDataID, choiceID) ==
    LET chrModelID    == Get(fdidToChrModel, modelFileDataID)
        textureLayout == IF chrModelID = <<>> THEN <<>>
                         ELSE Get(chrModelIDToTextureLayoutID, chrModelID[1])
        materials     == Get(choiceToChrCustMaterialID, choiceID)
        chrCustMatRows == MaterialRows(materials[1], chrCustMatMap)
        st == MaterialLoop(chrCustMatRows, 1, textureLayout[1],
                           charComponentTextureSectionMap[textureLayout[1]],
                           chrModelTexLayer, matResIDToFileDataID,
                           [skinMats |-> EmptyMap, thrown |-> FALSE])
    IN  IF ~Truthy(textureLayout) THEN RetFalse
        ELSE IF materials = <<>> THEN RetThrow
        ELSE IF Len(chrCustMatRows) = 0 THEN RetFalse
        ELSE IF ~Has(charComponentTextureSectionMap, textureLayout[1]) THEN RetFalse
        ELSE IF st.thrown THEN RetThrow
        ELSE [kind |-> "value", skinMats |-> st.skinMats]

\* Mutant of ScanCandidates: the candidate's own choice is compared with the
\* selection instead of its related choice.
RECURSIVE ScanCandidatesOwnChoice(_, _, _)
ScanCandidatesOwnChoice(availableChoices, entry, chrCustMatID) ==
    IF availableChoices = <<>> THEN chrCustMatID
    ELSE LET availableChoice == Head(availableChoices)
         IN  ScanCandidatesOwnChoice(Tail(availableChoices), entry,
                 IF availableChoice.ChrCustomizationChoiceID = entry
                 THEN availableChoice.ChrCustomizationMaterialID
                 ELSE chrCustMatID)

\* DBLogic.js:386-392: the material id left in chrCustMatID by the two nested
\* forEach loops (0 when nothing matched).
RECURSIVE ScanCandidates(_, _, _)
ScanCandidates(availableChoices, entry, chrCustMatID) ==
    IF availableChoices = <<>> THEN chrCustMatID
    ELSE LET availableChoice == Head(availableChoices)
         IN  ScanCandidates(Tail(availableChoices), entry,
                 IF availableChoice.RelatedChrCustomizationChoiceID = entry
                 THEN availableChoice.ChrCustomizationMaterialID
                 ELSE chrCustMatID)

RECURSIVE ScanSelections(_, _, _)
ScanSelections(current, availableChoices, chrCustMatID) ==
    IF current = <<>> THEN chrCustMatID
    ELSE ScanSelections(Tail(current), availableChoices,
                        ScanCandidates(availableChoices, Head(current), chrCustMatID))

\* Mutant of FallbackMaterial: the last candidate instead of the first.
FallbackMaterialLast(availableChoices) ==
    availableChoices[Len(availableChoices)].ChrCustomizationMaterialID

\* DBLogic.js:394-397
FallbackMaterial(availableChoices) == availableChoices[1].ChrCustomizationMaterialID

\* DBLogic.js:399-423, once the material id is chosen.
ResolveTexture(modelFileDataID, chrCustMatID) ==
    LET chrModelID    == Get(fdidToChrModel, modelFileDataID)
        chrCustMatRow == Get(chrCustMatMap, chrCustMatID)
        textureLayout == IF chrModelID = <<>> THEN <<>>
                         ELSE Get(chrModelIDToTextureLayoutID, chrModelID[1])
        layers        == Get(chrModelTexLayer, textureLayout[1])
        textureTarget == chrCustMatRow[1].ChrModelTextureTargetID
        textureLayer  == layers[1][textureTarget]
    IN  IF chrCustMatRow = <<>> THEN RetFalse
        ELSE IF ~Truthy(textureLayout) THEN RetFalse
        ELSE IF layers = <<>> THEN RetThrow
        ELSE IF ~Has(layers[1], textureTarget) THEN RetFalse
        ELSE IF Has(matResIDToFileDataID, chrCustMatRow[1].MaterialResourcesID)
        THEN [kind |-> "value", TextureType |-> textureLayer.TextureType,
              FileDataID |-> matResIDToFileDataID[chrCustMatRow[1].MaterialResourcesID],
              TextureSectionTypeBitMask |-> textureLayer.TextureSectionTypeBitMask]
        ELSE RetFalse

\* DBLogic.js:374-424. current is core.view.modelViewerChrCustCurrent. The
\* result carries, beside the return value, the material id resolved and
\* whether the fallback message of line 395 was logged.
getTextureForFileDataIDAndChoice(modelFileDataID, choiceID, current) ==
    LET availableChoices == choiceToChrCustMaterialID[choiceID]
        scanned == ScanSelections(current, availableChoices, 0)
        chrCustMatID == IF scanned = 0 THEN FallbackMaterial(availableChoices) ELSE scanned
    IN  IF ~Has(choiceToChrCustMaterialID, choiceID)
        THEN [out |-> RetFalse, chrCustMatID |-> 0, fallback |-> FALSE]
        ELSE [out |-> ResolveTexture(modelFileDataID, chrCustMatID),
              chrCustMatID |-> chrCustMatID, fallback |-> (scanned = 0)]

\* DBLogic.js:293-299
getGeosetForChoice(choiceID) ==
    IF Has(choiceToGeoset, choiceID)
    THEN (IF Has(geosetMap, choiceToGeoset[choiceID]) THEN geosetMap[choiceToGeoset[choiceID]]
          ELSE RetUndefined)
    ELSE RetFalse

\* DBLogic.js:269-271
isCharacterCustomizationAvailable == chrCustomizationAvailable

\* What Map.get returns: the value, or undefined for a key the map does not hold.
MapGet(m, k) == IF Has(m, k) THEN [kind |-> "value", v |-> m[k]] ELSE RetUndefined

\* DBLogic.js:243-245
isFileDataIDCharacterModel(fileDataID) == Has(fdidToChrModel, fileDataID)

\* DBLogic.js:252-254
getChrModelIDByFileDataID(fileDataID) == MapGet(fdidToChrModel, fileDataID)

\* DBLogic.js:261-263
getChrComponentTextureLayoutIDByChrModelID(chrModelID) ==
    MapGet(chrModelIDToTextureLayoutID, chrModelID)

\* DBLogic.js:277-279
getOptionsByChrModelID(chrModelID) == MapGet(optionsByChrModel, chrModelID)

\* DBLogic.js:285-287
getChoicesByOption(optionID) == MapGet(optionToChoices, optionID)

\* DBLogic.js:305-311
getTextureTargetByChrCustomizationMaterialID(chrModelMaterialID) ==
    IF Has(chrCustMatMap, chrModelMaterialID)
    THEN [kind |-> "value", v |-> chrCustMatMap[chrModelMaterialID].ChrModelTextureTargetID]
    ELSE RetFalse

(***************************************************************************)
(* The behaviour: loadTables runs from one await to the next; a query may  *)
(* run whenever loadTables is not running, that is before it starts, while *)
(* it is suspended at an await, and after it has returned or thrown.       *)
(***************************************************************************)
NoRet == [op |-> "none"]

LoadVars == <<db, config, modelViewerChrCustCurrent, memo, reloads, exporter>>

\* An awaited parse() that rejects: loadTables rejects with it, nothing else changes.
ParseFails ==
    /\ pc' = "failed"
    /\ err' = "parse"
    /\ UNCHANGED <<chrCustomizationAvailable, indices>>

\* DBLogic.js:47-53
LoadTables ==
    /\ pc = "idle"
    /\ pc' = "await1"
    /\ ret' = NoRet
    /\ UNCHANGED <<LoadVars, err, chrCustomizationAvailable, indices>>

\* A resumption that only moves on to the next parse():
\* DBLogic.js:53-64 (1 -> 2), 64-79 (2 -> 3), 128-131 (5 -> 6), 131-134 (6 -> 7),
\* 173-176 (8 -> 9). The maps built at 55-61 and 69-76 are locals of the call.
ResumePlain(from, to) ==
    /\ pc = from
    /\ ret' = NoRet
    /\ UNCHANGED LoadVars
    /\ \E ok \in BOOLEAN :
          IF ok
          THEN /\ pc' = to
               /\ UNCHANGED <<err, chrCustomizationAvailable, indices>>
          ELSE ParseFails

\* DBLogic.js:79-110
ResumeCreatureModelData ==
    /\ pc = "await3"
    /\ ret' = NoRet
    /\ UNCHANGED LoadVars
    /\ \E ok \in BOOLEAN :
          IF ok
          THEN /\ pc' = "await4"
               /\ creatureDisplays' =
                     BuildCreatureDisplays(db.CreatureModelData,
                         BuildModelIDToDisplayInfoMap(db.CreatureDisplayInfo, EmptyMap),
                         BuildCreatureDisplayInfoMap(db.CreatureDisplayInfo, EmptyMap),
                         BuildCreatureGeosetMap(db.CreatureDisplayInfoGeosetData, EmptyMap),
                         creatureDisplays)
               /\ UNCHANGED <<err, chrCustomizationAvailable, matResIDToFileDataID,
                              fdidToChrModel, chrModelIDToTextureLayoutID, optionsByChrModel,
                              optionToChoices, choiceToGeoset, choiceToChrCustMaterialID,
                              chrCustMatMap, geosetMap, chrModelTexLayer,
                              charComponentTextureSectionMap>>
          ELSE ParseFails

\* A gate that looks at the configuration flag alone.
CustomizationEnabledFlagOnly == config.enableCharacterCustomization

\* DBLogic.js:123: the feature gate.
CustomizationEnabled == config.enableCharacterCustomization /\ config.hasChrModel

\* DBLogic.js:110-128
ResumeTextureFileData ==
    /\ pc = "await4"
    /\ ret' = NoRet
    /\ UNCHANGED LoadVars
    /\ \E ok \in BOOLEAN :
          IF ok
          THEN /\ matResIDToFileDataID' =
                     BuildMatResIDToFileDataID(db.TextureFileData, matResIDToFileDataID)
               /\ IF CustomizationEnabled
                  THEN pc' = "await5" /\ chrCustomizationAvailable' = TRUE
                  ELSE pc' = "done" /\ UNCHANGED chrCustomizationAvailable
               /\ UNCHANGED <<err, creatureDisplays,
                              fdidToChrModel, chrModelIDToTextureLayoutID, optionsByChrModel,
                              optionToChoices, choiceToGeoset, choiceToChrCustMaterialID,
                              chrCustMatMap, geosetMap, chrModelTexLayer,
                              charComponentTextureSectionMap>>
          ELSE ParseFails

\* DBLogic.js:134-173
ResumeChrCustomizationChoice ==
    /\ pc = "await7"
    /\ ret' = NoRet
    /\ UNCHANGED LoadVars
    /\ \E ok \in BOOLEAN :
          IF ok
          THEN LET st == ChrModelLoop(db.ChrModel, db,
                             [fdid |-> fdidToChrModel, layout |-> chrModelIDToTextureLayoutID,
                              opts |-> optionsByChrModel, choices |-> optionToChoices,
                              thrown |-> FALSE])
               IN  /\ fdidToChrModel' = st.fdid
                   /\ chrModelIDToTextureLayoutID' = st.layout
                   /\ optionsByChrModel' = st.opts
                   /\ optionToChoices' = st.choices
                   /\ pc' = IF st.thrown THEN "failed" ELSE "await8"
                   /\ err' = IF st.thrown THEN "TypeError" ELSE err
                   /\ UNCHANGED <<chrCustomizationAvailable, creatureDisplays,
                                  matResIDToFileDataID, choiceToGeoset,
                                  choiceToChrCustMaterialID, chrCustMatMap, geosetMap,
                                  chrModelTexLayer, charComponentTextureSectionMap>>
          ELSE ParseFails

\* DBLogic.js:176-195
ResumeChrCustomizationElement ==
    /\ pc = "await9"
    /\ ret' = NoRet
    /\ UNCHANGED LoadVars
    /\ \E ok \in BOOLEAN :
          IF ok
          THEN LET st == ElementLoop(db.ChrCustomizationElement, db.ChrCustomizationMaterial,
                             [geo |-> choiceToGeoset, mat |-> choiceToChrCustMaterialID,
                              cmm |-> chrCustMatMap, thrown |-> FALSE])
               IN  /\ choiceToGeoset' = st.geo
                   /\ choiceToChrCustMaterialID' = st.mat
                   /\ chrCustMatMap' = st.cmm
                   /\ pc' = IF st.thrown THEN "failed" ELSE "await10"
                   /\ err' = IF st.thrown THEN "TypeError" ELSE err
                   /\ UNCHANGED <<chrCustomizationAvailable, creatureDisplays,
                                  matResIDToFileDataID, fdidToChrModel,
                                  chrModelIDToTextureLayoutID, optionsByChrModel,
                                  optionToChoices, geosetMap, chrModelTexLayer,
                                  charComponentTextureSectionMap>>
          ELSE ParseFails

\* DBLogic.js:195-204
ResumeChrCustomizationGeoset ==
    /\ pc = "await10"
    /\ ret' = NoRet
    /\ UNCHANGED LoadVars
    /\ \E ok \in BOOLEAN :
          IF ok
          THEN /\ geosetMap' = BuildGeosetMap(db.ChrCustomizationGeoset, geosetMap)
               /\ pc' = "await11"
               /\ UNCHANGED <<err, chrCustomizationAvailable, creatureDisplays,
                              matResIDToFileDataID, fdidToChrModel,
                              chrModelIDToTextureLayoutID, optionsByChrModel, optionToChoices,
                              choiceToGeoset, choiceToChrCustMaterialID, chrCustMatMap,
                              chrModelTexLayer, charComponentTextureSectionMap>>
          ELSE ParseFails

\* DBLogic.js:204-215
ResumeChrModelTextureLayer ==
    /\ pc = "await11"
    /\ ret' = NoRet
    /\ UNCHANGED LoadVars
    /\ \E ok \in BOOLEAN :
          IF ok
          THEN /\ chrModelTexLayer' = BuildChrModelTexLayer(db.ChrModelTextureLayer, chrModelTexLayer)
               /\ pc' = "await12"
               /\ UNCHANGED <<err, chrCustomizationAvailable, creatureDisplays,
                              matResIDToFileDataID, fdidToChrModel,
                              chrModelIDToTextureLayoutID, optionsByChrModel, optionToChoices,
                              choiceToGeoset, choiceToChrCustMaterialID, chrCustMatMap,
                              geosetMap, charComponentTextureSectionMap>>
          ELSE ParseFails

\* DBLogic.js:215-227
ResumeCharComponentTextureSections ==
    /\ pc = "await12"
    /\ ret' = NoRet
    /\ UNCHANGED LoadVars
    /\ \E ok \in BOOLEAN :
          IF ok
          THEN /\ charComponentTextureSectionMap' =
                     BuildSectionMap(db.CharComponentTextureSections, charComponentTextureSectionMap)
               /\ pc' = "done"
               /\ UNCHANGED <<err, chrCustomizationAvailable, creatureDisplays,
                              matResIDToFileDataID, fdidToChrModel,
                              chrModelIDToTextureLayoutID, optionsByChrModel, optionToChoices,
                              choiceToGeoset, choiceToChrCustMaterialID, chrCustMatMap,
                              geosetMap, chrModelTexLayer>>
          ELSE ParseFails

MaxReloads == 1             \* calls of loadTables after the first

\* The arguments the queries are called with.
FileIds == {1, 2}
ChoiceIds == {5, 6}

Frame == UNCHANGED <<LoadVars, pc, err, chrCustomizationAvailable, indices>>

QueryAvailable ==
    /\ ret' = [op |-> "isCharacterCustomizationAvailable", at |-> pc,
               out |-> isCharacterCustomizationAvailable]
    /\ Frame

QueryGeoset ==
    /\ \E choiceID \in ChoiceIds :
          ret' = [op |-> "getGeosetForChoice", at |-> pc, choiceID |-> choiceID,
                  out |-> getGeosetForChoice(choiceID)]
    /\ Frame

QuerySkinMaterials ==
    /\ \E modelFileDataID \in FileIds, choiceID \in ChoiceIds :
          ret' = [op |-> "getSkinMaterialsForChoice", at |-> pc,
                  modelFileDataID |-> modelFileDataID, choiceID |-> choiceID,
                  out |-> getSkinMaterialsForChoice(modelFileDataID, choiceID)]
    /\ Frame

\* A resolver that takes the fallback material off the front of the choice's list.
QueryTextureShift ==
    \E modelFileDataID \in FileIds, choiceID \in ChoiceIds :
       LET r == getTextureForFileDataIDAndChoice(modelFileDataID, choiceID,
                                                  modelViewerChrCustCurrent)
       IN  /\ ret' = [op |-> "getTextureForFileDataIDAndChoice", at |-> pc,
                       modelFileDataID |-> modelFileDataID, choiceID |-> choiceID,
                       out |-> r.out, chrCustMatID |-> r.chrCustMatID, fallback |-> r.fallback]
           /\ choiceToChrCustMaterialID' =
                  IF r.fallback /\ r.chrCustMatID # 0
                  THEN [choiceToChrCustMaterialID EXCEPT ![choiceID] = Tail(@)]
                  ELSE choiceToChrCustMaterialID
           /\ UNCHANGED <<LoadVars, pc, err, chrCustomizationAvailable, creatureDisplays,
                          matResIDToFileDataID, fdidToChrModel, chrModelIDToTextureLayoutID,
                          optionsByChrModel, optionToChoices, choiceToGeoset, chrCustMatMap,
                          geosetMap, chrModelTexLayer, charComponentTextureSectionMap>>

QueryTexture ==
    /\ \E modelFileDataID \in FileIds, choiceID \in ChoiceIds :
          LET r == getTextureForFileDataIDAndChoice(modelFileDataID, choiceID,
                                                     modelViewerChrCustCurrent)
          IN  ret' = [op |-> "getTextureForFileDataIDAndChoice", at |-> pc,
                      modelFileDataID |-> modelFileDataID, choiceID |-> choiceID,
                      out |-> r.out, chrCustMatID |-> r.chrCustMatID, fallback |-> r.fallback]
    /\ Frame

\* The model, option and material ids the lookups are called with.
ModelIds == {1, 2}
OptionIds == {1, 2}
MaterialIds == {10, 11}

\* The one-line lookups of the catalog (DBLogic.js:243-287, 305-311).
QueryLookup ==
    /\ \/ \E fileDataID \in FileIds :
             ret' = [op |-> "isFileDataIDCharacterModel", at |-> pc, arg |-> fileDataID,
                     out |-> IF isFileDataIDCharacterModel(fileDataID)
                             THEN [kind |-> "true"] ELSE RetFalse]
       \/ \E fileDataID \in FileIds :
             ret' = [op |-> "getChrModelIDByFileDataID", at |-> pc, arg |-> fileDataID,
                     out |-> getChrModelIDByFileDataID(fileDataID)]
       \/ \E chrModelID \in ModelIds :
             ret' = [op |-> "getChrComponentTextureLayoutIDByChrModelID", at |-> pc,
                     arg |-> chrModelID,
                     out |-> getChrComponentTextureLayoutIDByChrModelID(chrModelID)]
       \/ \E chrModelID \in ModelIds :
             ret' = [op |-> "getOptionsByChrModelID", at |-> pc, arg |-> chrModelID,
                     out |-> getOptionsByChrModelID(chrModelID)]
       \/ \E optionID \in OptionIds :
             ret' = [op |-> "getChoicesByOption", at |-> pc, arg |-> optionID,
                     out |-> getChoicesByOption(optionID)]
       \/ \E chrModelMaterialID \in MaterialIds :
             ret' = [op |-> "getTextureTargetByChrCustomizationMaterialID", at |-> pc,
                     arg |-> chrModelMaterialID,
                     out |-> getTextureTargetByChrCustomizationMaterialID(chrModelMaterialID)]
    /\ Frame

Next ==
    \/ LoadTables
    \/ ResumePlain("await1", "await2")
    \/ ResumePlain("await2", "await3")
    \/ ResumeCreatureModelData
    \/ ResumeTextureFileData
    \/ ResumePlain("await5", "await6")
    \/ ResumePlain("await6", "await7")
    \/ ResumeChrCustomizationChoice
    \/ ResumePlain("await8", "await9")
    \/ ResumeChrCustomizationElement
    \/ ResumeChrCustomizationGeoset
    \/ ResumeChrModelTextureLayer
    \/ ResumeCharComponentTextureSections
    \/ QueryAvailable
    \/ QueryGeoset
    \/ QuerySkinMaterials
    \/ QueryTexture

\* The caller keeps the result of a resolver call made after loadTables returned.
Remember ==
    /\ pc = "done"
    /\ memo = NoRet
    /\ ret.op \in {"getSkinMaterialsForChoice", "getTextureForFileDataIDAndChoice"}
    /\ memo' = ret
    /\ UNCHANGED <<db, config, modelViewerChrCustCurrent, pc, err, chrCustomizationAvailable,
                   indices, ret, reloads, exporter>>

\* The behaviour with a caller that compares results.
NextRepeat == Next \/ Remember

\* DBLogic.js:47-53: loadTables called again, over the same tables, after it
\* has returned. Nothing at 28-42 or 47-53 empties a module-level map.
ReloadTables ==
    /\ pc = "done"
    /\ reloads < MaxReloads
    /\ reloads' = reloads + 1
    /\ pc' = "await1"
    /\ ret' = NoRet
    /\ UNCHANGED <<db, config, modelViewerChrCustCurrent, memo, err,
                   chrCustomizationAvailable, indices, exporter>>

\* The behaviour with repeated loads.
NextReload == Next \/ ReloadTables

\* The behaviour with the lookups among the queries.
NextLookup == Next \/ QueryLookup

(***************************************************************************)
(* M2Exporter.exportAsOBJ and the exportTextures it calls.  The export     *)
(* runs from one await to the next; helper.isCancelled() may turn true     *)
(* while it is suspended.  A file id stands for the texture's path and a   *)
(* pair <<"mat_", id>> for its material name (the listfile names no file). *)
(***************************************************************************)
ValidObject(m) == [kind |-> "object", m |-> m]

\* A texture loop that never asks the helper.
RECURSIVE TextureLoopNoCheck(_, _)
TextureLoopNoCheck(i, textures) ==
    IF i > Len(textures) THEN [kind |-> "end", i |-> i, textures |-> textures]
    ELSE LET texFileDataID == IF textures[i] = 0 THEN job.variantTexture ELSE textures[i]
             patched == [textures EXCEPT ![i] = texFileDataID]
         IN  IF texFileDataID > 0
             THEN [kind |-> IF job.overwriteFiles THEN "getFile" ELSE "fileExists",
                   i |-> i, textures |-> patched]
             ELSE TextureLoopNoCheck(i + 1, patched)

\* M2Exporter.js:53-96: the loop of exportTextures from the head of iteration
\* i to where it next suspends or leaves: it returns at the cancellation
\* check ("cancelled"), runs off the end of the list ("end"), or awaits
\* fileExists or, when overwriting, getFile for texture i.
RECURSIVE TextureLoop(_, _)
TextureLoop(i, textures) ==
    IF i > Len(textures) THEN [kind |-> "end", i |-> i, textures |-> textures]
    ELSE IF cancelled THEN [kind |-> "cancelled", i |-> i, textures |-> textures]
    ELSE LET texFileDataID == IF textures[i] = 0 THEN job.variantTexture ELSE textures[i]
             patched == [textures EXCEPT ![i] = texFileDataID]
         IN  IF texFileDataID > 0
             THEN [kind |-> IF job.overwriteFiles THEN "getFile" ELSE "fileExists",
                   i |-> i, textures |-> patched]
             ELSE TextureLoop(i + 1, patched)

\* The loop continues at the head of iteration i with validTextures vt and
\* MTL materials mt.
Iterate(i, vt, mt) ==
    LET r == TextureLoop(i, m2.textures)
    IN  /\ m2' = [m2 EXCEPT !.textures = r.textures]
        /\ texIndex' = r.i
        /\ mtl' = mt
        /\ xpc' = CASE r.kind = "fileExists" -> "tex.fileExists"
                     [] r.kind = "getFile" -> "tex.getFile"
                     [] OTHER -> "obj.exportTextures"
        /\ validTextures' = IF r.kind = "cancelled" THEN RetUndefined ELSE vt
        /\ observed' = (observed \/ r.kind = "cancelled")
        /\ fetched' = IF r.kind = "getFile" THEN Append(fetched, r.textures[r.i]) ELSE fetched

\* M2Exporter.js:111-114: the texture of the iteration becomes a material.
WithMaterial(vt) == ValidObject(Put(vt.m, m2.textures[texIndex], <<"mat_", m2.textures[texIndex]>>))

AddMaterial(mt) == Append(mt, <<(<<"mat_", m2.textures[texIndex]>>), (<<m2.textures[texIndex], ".png">>)>>)

Rejected ==
    /\ xpc' = "rejected"
    /\ UNCHANGED <<job, geosetMask, m2, cancelled, cancelledAt, observed, texIndex, validTextures, mtl,
                   fetched, written, obj, files>>

\* M2Exporter.js:131-132
ExportAsOBJ ==
    /\ xpc = "idle"
    /\ xpc' = "obj.load"
    /\ UNCHANGED <<job, geosetMask, m2, cancelled, cancelledAt, observed, texIndex, validTextures, mtl,
                   fetched, written, obj, files>>
    /\ UNCHANGED catalog

\* M2Exporter.js:132-133
ResumeLoad ==
    /\ xpc = "obj.load"
    /\ UNCHANGED catalog
    /\ \E ok \in BOOLEAN :
          IF ok
          THEN /\ xpc' = "obj.getSkin"
               /\ UNCHANGED <<job, geosetMask, m2, cancelled, cancelledAt, observed, texIndex, validTextures,
                              mtl, fetched, written, obj, files>>
          ELSE Rejected

\* M2Exporter.js:133-153 and 46-48: the writers are made and exportTextures is
\* entered, up to its own await of m2.load().
ResumeGetSkin ==
    /\ xpc = "obj.getSkin"
    /\ UNCHANGED catalog
    /\ \E ok \in BOOLEAN :
          IF ok
          THEN /\ xpc' = "tex.load"
               /\ UNCHANGED <<job, geosetMask, m2, cancelled, cancelledAt, observed, texIndex, validTextures,
                              mtl, fetched, written, obj, files>>
          ELSE Rejected

\* M2Exporter.js:48-53: the loop is entered.
ResumeTexturesLoad ==
    /\ xpc = "tex.load"
    /\ UNCHANGED catalog
    /\ \E ok \in BOOLEAN :
          IF ok
          THEN /\ Iterate(1, ValidObject(EmptyMap), <<>>)
               /\ UNCHANGED <<job, geosetMask, cancelled, cancelledAt, written, obj, files>>
          ELSE Rejected

\* M2Exporter.js:96-97, 108-118: fileExists has answered, or has rejected
\* into the catch of line 116.
ResumeFileExists ==
    /\ xpc = "tex.fileExists"
    /\ UNCHANGED catalog
    /\ \E answer \in {"exists", "missing", "rejected"} :
          CASE answer = "missing" ->
                 /\ fetched' = Append(fetched, m2.textures[texIndex])
                 /\ xpc' = "tex.getFile"
                 /\ UNCHANGED <<job, geosetMask, m2, cancelled, cancelledAt, observed, texIndex,
                                validTextures, mtl, written, obj, files>>
            [] answer = "exists" ->
                 /\ Iterate(texIndex + 1, WithMaterial(validTextures), AddMaterial(mtl))
                 /\ UNCHANGED <<job, geosetMask, cancelled, cancelledAt, written, obj, files>>
            [] answer = "rejected" ->
                 /\ Iterate(texIndex + 1, validTextures, mtl)
                 /\ UNCHANGED <<job, geosetMask, cancelled, cancelledAt, written, obj, files>>

\* M2Exporter.js:97-106: the file has arrived and saveToPNG is called
\* (exportAsOBJ passes raw = false), or getFile has rejected.
ResumeGetFile ==
    /\ xpc = "tex.getFile"
    /\ UNCHANGED catalog
    /\ \E ok \in BOOLEAN :
          IF ok
          THEN /\ written' = Append(written, m2.textures[texIndex])
               /\ xpc' = "tex.saveToPNG"
               /\ UNCHANGED <<job, geosetMask, m2, cancelled, cancelledAt, observed, texIndex,
                              validTextures, mtl, fetched, obj, files>>
          ELSE /\ Iterate(texIndex + 1, validTextures, mtl)
               /\ UNCHANGED <<job, geosetMask, cancelled, cancelledAt, written, obj, files>>

\* M2Exporter.js:106-118
ResumeSaveToPNG ==
    /\ xpc = "tex.saveToPNG"
    /\ UNCHANGED catalog
    /\ UNCHANGED <<job, geosetMask, cancelled, cancelledAt, written, obj, files>>
    /\ \E ok \in BOOLEAN :
          IF ok
          THEN Iterate(texIndex + 1, WithMaterial(validTextures), AddMaterial(mtl))
          ELSE Iterate(texIndex + 1, validTextures, mtl)

\* M2Exporter.js:179-182: the file id of the texture of mesh mI, 0 without one.
MeshTexture(mI) == IF m2.meshTextures[mI] = 0 THEN 0 ELSE m2.textures[m2.meshTextures[mI]]

\* M2Exporter.js:169-189: the faces loop from mesh mI on, with the meshes
\* added so far. A mesh whose geoset is not checked is skipped; a mask with
\* no entry for the mesh, and validTextures[...] when exportTextures
\* returned undefined, throw. A mesh's material name is <<>> for undefined.
RECURSIVE Faces(_, _)
Faces(mI, meshes) ==
    IF mI > Len(m2.meshTextures) THEN [obj |-> meshes, thrown |-> FALSE]
    ELSE IF geosetMask # <<>> /\ mI > Len(geosetMask[1])
    THEN [obj |-> meshes, thrown |-> TRUE]
    ELSE IF geosetMask # <<>> /\ ~geosetMask[1][mI].checked
    THEN Faces(mI + 1, meshes)
    ELSE IF MeshTexture(mI) > 0 /\ validTextures.kind = "undefined"
    THEN [obj |-> meshes, thrown |-> TRUE]
    ELSE Faces(mI + 1,
               Append(meshes, IF MeshTexture(mI) > 0 THEN Get(validTextures.m, MeshTexture(mI))
                              ELSE <<>>))

FacesThrow == Faces(1, <<>>).thrown

MatNames == Faces(1, <<>>).obj

\* M2Exporter.js:153-194: exportTextures has returned; the cancellation check
\* of line 156, then the faces and the call of obj.write.
ResumeExportTextures ==
    /\ xpc = "obj.exportTextures"
    /\ UNCHANGED catalog
    /\ UNCHANGED <<job, geosetMask, m2, cancelled, cancelledAt, texIndex, validTextures, mtl, fetched,
                   written>>
    /\ IF cancelled
       THEN /\ observed' = TRUE
            /\ xpc' = "returned"
            /\ UNCHANGED <<obj, files>>
       ELSE /\ UNCHANGED observed
            /\ obj' = MatNames
            /\ IF FacesThrow
               THEN xpc' = "rejected" /\ UNCHANGED files
               ELSE /\ files' = files \cup {"obj"}
                    /\ xpc' = "obj.write"

\* M2Exporter.js:198-206: after the JSON file, the collision file or the end.
AfterJSON(written_files) ==
    IF job.exportCollision
    THEN files' = written_files \cup {"phys"} /\ xpc' = "phys.write"
    ELSE files' = written_files /\ xpc' = "returned"

\* M2Exporter.js:194-195
ResumeObjWrite ==
    /\ xpc = "obj.write"
    /\ UNCHANGED catalog
    /\ \E ok \in BOOLEAN :
          IF ok
          THEN /\ files' = files \cup {"mtl"}
               /\ xpc' = "mtl.write"
               /\ UNCHANGED <<job, geosetMask, m2, cancelled, cancelledAt, observed, texIndex, validTextures,
                              mtl, fetched, written, obj>>
          ELSE Rejected

\* M2Exporter.js:195-206
ResumeMtlWrite ==
    /\ xpc = "mtl.write"
    /\ UNCHANGED catalog
    /\ \E ok \in BOOLEAN :
          IF ok
          THEN /\ IF job.modelsExportMeta
                  THEN files' = files \cup {"json"} /\ xpc' = "json.write"
                  ELSE AfterJSON(files)
               /\ UNCHANGED <<job, geosetMask, m2, cancelled, cancelledAt, observed, texIndex, validTextures,
                              mtl, fetched, written, obj>>
          ELSE Rejected

\* M2Exporter.js:197-206
ResumeJsonWrite ==
    /\ xpc = "json.write"
    /\ UNCHANGED catalog
    /\ \E ok \in BOOLEAN :
          IF ok
          THEN /\ AfterJSON(files)
               /\ UNCHANGED <<job, geosetMask, m2, cancelled, cancelledAt, observed, texIndex, validTextures,
                              mtl, fetched, written, obj>>
          ELSE Rejected

\* M2Exporter.js:205-207
ResumePhysWrite ==
    /\ xpc = "phys.write"
    /\ UNCHANGED catalog
    /\ \E ok \in BOOLEAN :
          IF ok
          THEN /\ xpc' = "returned"
               /\ UNCHANGED <<job, geosetMask, m2, cancelled, cancelledAt, observed, texIndex, validTextures,
                              mtl, fetched, written, obj, files>>
          ELSE Rejected

\* The user cancels: from now on helper.isCancelled() returns true.
Cancel ==
    /\ ~cancelled
    /\ xpc \notin {"returned", "rejected"}
    /\ cancelled' = TRUE
    /\ cancelledAt' = xpc
    /\ UNCHANGED <<job, geosetMask, m2, observed, xpc, texIndex, validTextures, mtl, fetched, written,
                   obj, files>>
    /\ UNCHANGED catalog

\* The masks setGeosetMask is called with: too short for the meshes, all
\* checked, the first unchecked, none checked.
GeosetMasks ==
    {<<>>} \cup {[mI \in 1..Len(m2.meshTextures) |-> [checked |-> mI \notin unchecked]] :
                    unchecked \in {{}, {1}, 1..Len(m2.meshTextures)}}

\* M2Exporter.js:35-37, before or during an export.
SetGeosetMask ==
    /\ \E mask \in GeosetMasks : geosetMask' = <<mask>>
    /\ UNCHANGED <<job, m2, cancelled, cancelledAt, observed, xpc, texIndex, validTextures,
                   mtl, fetched, written, obj, files>>
    /\ UNCHANGED catalog

NextExport ==
    \/ SetGeosetMask
    \/ ExportAsOBJ
    \/ ResumeLoad
    \/ ResumeGetSkin
    \/ ResumeTexturesLoad
    \/ ResumeFileExists
    \/ ResumeGetFile
    \/ ResumeSaveToPNG
    \/ ResumeExportTextures
    \/ ResumeObjWrite
    \/ ResumeMtlWrite
    \/ ResumeJsonWrite
    \/ ResumePhysWrite
    \/ Cancel

\* The state of a new M2Exporter (M2Exporter.js:26-29), for one model and one export.
InitExporter(jobs) ==
    /\ \E j \in jobs :
          /\ job = j.job
          /\ m2 = j.m2
    /\ geosetMask = <<>>
    /\ cancelled = FALSE
    /\ cancelledAt = "never"
    /\ observed = FALSE
    /\ xpc = "idle"
    /\ texIndex = 0
    /\ validTextures = ValidObject(EmptyMap)
    /\ mtl = <<>>
    /\ fetched = <<>>
    /\ written = <<>>
    /\ obj = <<>>
    /\ files = {}

(***************************************************************************)
(* The datasets.  Rows are in file order; ids are small numbers.  Model 1  *)
(* (mesh file 1) uses texture layout 1; model 2 (mesh file 2) is a second  *)
(* character model.  Choices 5 and 6 belong to option 1 of model 1.        *)
(***************************************************************************)
NumSectionTypes == 3        \* section types 0 .. NumSectionTypes-1
MaxSelections == 2          \* length of modelViewerChrCustCurrent

SeqsUpTo(S, n) == UNION {[1..k -> S] : k \in 0..n}

DisplayRows ==
    <<[ID |-> 1, ModelID |-> 1, TextureVariationFileDataID |-> <<3, 0>>],
      [ID |-> 2, ModelID |-> 2, TextureVariationFileDataID |-> <<0, 4>>],
      [ID |-> 3, ModelID |-> 1, TextureVariationFileDataID |-> <<5>>]>>

ModelDataRows ==
    <<[ID |-> 1, FileDataID |-> 1, CreatureGeosetDataID |-> 1],
      [ID |-> 2, FileDataID |-> 2, CreatureGeosetDataID |-> 0]>>

DisplayGeosetRows ==
    <<[CreatureDisplayInfoID |-> 1, GeosetIndex |-> 0, GeosetValue |-> 2],
      [CreatureDisplayInfoID |-> 1, GeosetIndex |-> 3, GeosetValue |-> 1]>>

OptionRows ==
    <<[ID |-> 1, ChrModelID |-> 1, Name_lang |-> "Skin Color"],
      [ID |-> 2, ChrModelID |-> 2, Name_lang |-> "Face"]>>

ChoiceRows ==
    <<[ID |-> 5, ChrCustomizationOptionID |-> 1, Name_lang |-> "", OrderIndex |-> 0],
      [ID |-> 6, ChrCustomizationOptionID |-> 1, Name_lang |-> "Pale", OrderIndex |-> 1]>>

ChrModelRow(id, displayID, layoutID) ==
    [ID |-> id, DisplayID |-> displayID, CharComponentTextureLayoutID |-> layoutID]

ElementRow(id, choiceID, geosetID, materialID, relatedChoiceID) ==
    [ID |-> id, ChrCustomizationChoiceID |-> choiceID, ChrCustomizationGeosetID |-> geosetID,
     ChrCustomizationMaterialID |-> materialID, RelatedChrCustomizationChoiceID |-> relatedChoiceID]

MaterialRow(id, targetID, resourceID) ==
    [ID |-> id, ChrModelTextureTargetID |-> targetID, MaterialResourcesID |-> resourceID]

GeosetRow(id, geosetType, geosetID) ==
    [ID |-> id, GeosetType |-> geosetType, GeosetID |-> geosetID]

LayerRow(id, layoutID, targetID, layer, mask) ==
    [ID |-> id, TextureType |-> targetID + 10, Layer |-> layer, TextureSectionTypeBitMask |-> mask,
     ChrModelTextureTargetID |-> <<targetID, 0>>, CharComponentTextureLayoutsID |-> layoutID]

\* The section of type t of a layout: every type has a rectangle of its own.
SectionRow(layoutID, t) ==
    [ID |-> 10 * layoutID + t, CharComponentTextureLayoutID |-> layoutID, SectionType |-> t,
     X |-> 256 * t, Y |-> 128 * t, Width |-> 256, Height |-> 128 + t]

TextureFileRow(id, usageType, resourceID) ==
    [ID |-> id, UsageType |-> usageType, MaterialResourcesID |-> resourceID]

RECURSIVE SectionRowsOf(_, _)
SectionRowsOf(layoutID, keys) ==
    IF keys = <<>> THEN <<>>
    ELSE <<SectionRow(layoutID, Head(keys))>> \o SectionRowsOf(layoutID, Tail(keys))

RECURSIVE ElementsOf(_, _, _)
ElementsOf(choiceID, pairs, firstID) ==
    IF pairs = <<>> THEN <<>>
    ELSE <<ElementRow(firstID, choiceID, 0, Head(pairs)[1], Head(pairs)[2])>>
         \o ElementsOf(choiceID, Tail(pairs), firstID + 1)

\* The tables that every dataset shares, with the ones a family varies.
Dataset(chrModels, elements, materials, geosets, layers, sections, textureFiles) ==
    [CreatureDisplayInfoGeosetData |-> DisplayGeosetRows,
     CreatureDisplayInfo |-> DisplayRows,
     CreatureModelData |-> ModelDataRows,
     TextureFileData |-> textureFiles,
     ChrModel |-> chrModels,
     ChrCustomizationOption |-> OptionRows,
     ChrCustomizationChoice |-> ChoiceRows,
     ChrCustomizationMaterial |-> materials,
     ChrCustomizationElement |-> elements,
     ChrCustomizationGeoset |-> geosets,
     ChrModelTextureLayer |-> layers,
     CharComponentTextureSections |-> sections]

BothModels == <<ChrModelRow(1, 1, 1), ChrModelRow(2, 2, 2)>>
BothMaterials == <<MaterialRow(10, 1, 20), MaterialRow(11, 2, 21)>>
BothTextureFiles == <<TextureFileRow(30, 0, 20), TextureFileRow(31, 0, 21)>>
BothLayers == <<LayerRow(1, 1, 1, 0, -1), LayerRow(2, 1, 2, 1, 1)>>
SomeGeosets == <<GeosetRow(1, 1, 5), GeosetRow(2, 12, 3)>>
SomeElements == <<ElementRow(1, 5, 1, 10, 0), ElementRow(2, 6, 0, 0, 0)>>
FlagOn == [enableCharacterCustomization |-> TRUE, hasChrModel |-> TRUE]

\* Loading: the gate inputs, ChrModel rows with a missing display row or a
\* zero layout, elements with a dangling geoset or material reference,
\* sections for layout 1 alone or also for layout 2, which has no layer row.
LoadDatasets ==
    {Dataset(m, e, BothMaterials, SomeGeosets, BothLayers, ss, BothTextureFiles) :
        m \in {BothModels,
               <<ChrModelRow(1, 1, 1), ChrModelRow(2, 2, 0)>>,
               <<ChrModelRow(1, 1, 1), ChrModelRow(3, 9, 2)>>},
        e \in {SomeElements,
               <<ElementRow(1, 5, 3, 0, 0), ElementRow(2, 5, 0, 10, 7), ElementRow(3, 6, 2, 11, 9)>>,
               <<ElementRow(1, 5, 1, 12, 0), ElementRow(2, 6, 2, 10, 0)>>},
        ss \in {<<>>,
                SectionRowsOf(1, <<0, 2>>),
                SectionRowsOf(1, <<0, 2>>) \o SectionRowsOf(2, <<0>>)}}

LoadInits ==
    {[db |-> d, config |-> [enableCharacterCustomization |-> f, hasChrModel |-> h], current |-> <<7>>] :
        d \in LoadDatasets, f \in BOOLEAN, h \in BOOLEAN}

\* Skin layers: what choice 5 binds, the layers of layout 1 and their masks,
\* the sections present, and whether resource 21 has a usage-type-0 file.
SkinMasks == {-1, 0, 1, 5}

SkinDatasets ==
    {Dataset(BothModels,
             ElementsOf(5, e, 1) \o <<ElementRow(9, 6, 1, 0, 0)>>,
             BothMaterials, SomeGeosets,
             <<LayerRow(1, 1, 1, 0, mask1)>> \o l2,
             SectionRowsOf(1, SortedKeys(ss)),
             <<TextureFileRow(30, 0, 20), TextureFileRow(31, u, 21)>>) :
        e  \in {<<<<10, 0>>>>, <<<<10, 0>>, <<11, 0>>>>, <<<<11, 0>>, <<10, 0>>>>},
        mask1 \in SkinMasks,
        l2 \in {<<>>} \cup {<<LayerRow(2, 1, 2, o, mask2)>> : o \in {0, 1}, mask2 \in {-1, 4}},
        ss \in SUBSET (0..(NumSectionTypes - 1)),
        u  \in {0, 1}}

SkinInits == {[db |-> d, config |-> FlagOn, current |-> <<>>] : d \in SkinDatasets}

\* Material selection: the candidates of choice 5 (material, related choice)
\* and the current selections.
Candidates == {10, 11} \X {0, 7, 9}
SelectionIds == {7, 9}

TextureDatasets ==
    {Dataset(BothModels, ElementsOf(5, c, 1), BothMaterials, SomeGeosets, BothLayers,
             SectionRowsOf(1, <<0, 2>>), BothTextureFiles) :
        c \in [1..1 -> Candidates] \cup [1..2 -> Candidates]}

TextureInits ==
    {[db |-> d, config |-> FlagOn, current |-> c] :
        d \in TextureDatasets, c \in SeqsUpTo(SelectionIds, MaxSelections)}

\* Geosets: the geoset rows 1 and 2 and what choice 5 refers to (row 3 does not exist).
GeosetValues == {0, 1, 5, 12, 99, 100}

GeosetDatasets ==
    {Dataset(BothModels,
             <<ElementRow(1, 5, g, 10, 0), ElementRow(2, 6, 0, 11, 0)>>,
             BothMaterials,
             <<GeosetRow(1, p[1], p[2]), GeosetRow(2, q[1], q[2])>>,
             BothLayers, SectionRowsOf(1, <<0, 2>>), BothTextureFiles) :
        g \in {1, 3},
        p \in GeosetValues \X GeosetValues,
        q \in {<<12, 3>>, <<11, 0>>, <<0, 1>>}}

GeosetInits == {[db |-> d, config |-> FlagOn, current |-> <<>>] : d \in GeosetDatasets}

\* The state after the module is loaded (DBLogic.js:28-42), for one dataset.
InitCatalog(inits) ==
    /\ \E i \in inits :
          /\ db = i.db
          /\ config = i.config
          /\ modelViewerChrCustCurrent = i.current
    /\ pc = "idle"
    /\ err = "none"
    /\ chrCustomizationAvailable = FALSE
    /\ creatureDisplays = EmptyMap
    /\ matResIDToFileDataID = EmptyMap
    /\ fdidToChrModel = EmptyMap
    /\ chrModelIDToTextureLayoutID = EmptyMap
    /\ optionsByChrModel = EmptyMap
    /\ optionToChoices = EmptyMap
    /\ choiceToGeoset = EmptyMap
    /\ choiceToChrCustMaterialID = EmptyMap
    /\ chrCustMatMap = EmptyMap
    /\ geosetMap = EmptyMap
    /\ chrModelTexLayer = EmptyMap
    /\ charComponentTextureSectionMap = EmptyMap
    /\ ret = NoRet
    /\ memo = NoRet
    /\ reloads = 0

\* No export under way.
NoJob == [variantTexture |-> 0, exportCollision |-> FALSE, overwriteFiles |-> FALSE,
          modelsExportMeta |-> FALSE]

InitWith(inits) ==
    /\ InitCatalog(inits)
    /\ InitExporter({[job |-> NoJob, m2 |-> [textures |-> <<>>, meshTextures |-> <<>>]]})

Init == InitWith(LoadInits)
InitSkin == InitWith(SkinInits)
InitTexture == InitWith(TextureInits)
InitGeoset == InitWith(GeosetInits)

Spec == Init /\ [][Next]_vars
SpecSkin == InitSkin /\ [][Next]_vars
SpecTexture == InitTexture /\ [][Next]_vars
SpecGeoset == InitGeoset /\ [][Next]_vars
SpecLookup == Init /\ [][NextLookup]_vars
SpecRepeat == InitTexture /\ [][NextRepeat]_vars
SpecReload == Init /\ [][NextReload]_vars

\* Exports: up to MaxTextures textures, blank (0) or not, with or without a
\* variant texture, one mesh per texture and one mesh without a texture.
MaxTextures == 2
TextureIds == {0, 5}
VariantTextures == {0, 7}

ExportJobs ==
    {[job |-> [variantTexture |-> v, exportCollision |-> c, overwriteFiles |-> o,
               modelsExportMeta |-> e],
      m2 |-> [textures |-> t, meshTextures |-> [i \in 1..Len(t) |-> i] \o <<0>>]] :
        v \in VariantTextures, c \in BOOLEAN, o \in BOOLEAN, e \in BOOLEAN,
        t \in SeqsUpTo(TextureIds, MaxTextures)}

InitExport ==
    /\ InitCatalog({[db |-> Dataset(BothModels, SomeElements, BothMaterials, SomeGeosets,
                                      BothLayers, <<>>, BothTextureFiles),
                      config |-> FlagOn, current |-> <<>>]})
    /\ InitExporter(ExportJobs)

SpecExport == InitExport /\ [][NextExport]_vars

(***************************************************************************)
(* The claims.                                                             *)
(***************************************************************************)
Loading == {"idle", "await1", "await2", "await3", "await4", "await5", "await6",
            "await7", "await8", "await9", "await10", "await11", "await12"}

Resolvers == {"getGeosetForChoice", "getSkinMaterialsForChoice",
              "getTextureForFileDataIDAndChoice"}

CustomizationIndices ==
    <<fdidToChrModel, chrModelIDToTextureLayoutID, optionsByChrModel, optionToChoices,
      choiceToGeoset, choiceToChrCustMaterialID, chrCustMatMap, geosetMap,
      chrModelTexLayer, charComponentTextureSectionMap>>

NoCustomizationIndex == \A i \in 1..Len(CustomizationIndices) : CustomizationIndices[i] = EmptyMap

\* C1: a query made before loadTables has completed (before it starts or
\* while it is suspended at an await) finds isCharacterCustomizationAvailable()
\* false, and a resolver query made then returns the unavailable value.
C1_UnavailableBeforeLoaded ==
    /\ (ret.op = "isCharacterCustomizationAvailable" /\ ret.at \in Loading) => ret.out = FALSE
    /\ (ret.op \in Resolvers /\ ret.at \in Loading) => ret.out.kind = "false"

\* C2: once a parse() has rejected, loadTables has rejected with it,
\* isCharacterCustomizationAvailable() is false and no customization index
\* holds anything.
C2_FailedLoadPublishesNothing ==
    (pc = "failed" /\ err = "parse") =>
        (~isCharacterCustomizationAvailable /\ NoCustomizationIndex)

\* C3: once the catalog is built, for a choice with no entry in the
\* choice->material-elements index getSkinMaterialsForChoice returns false
\* and does not throw, whatever the mesh.
C3_NoMaterialsIsUnavailable ==
    (/\ ret.op = "getSkinMaterialsForChoice"
     /\ ret.at = "done"
     /\ ~Has(choiceToChrCustMaterialID, ret.choiceID))
    => ret.out.kind = "false"

\* The texture layout of a mesh file, the layer a bound element resolves to,
\* and the sections of a layout, read from the indices.
LayoutOf(modelFileDataID) == chrModelIDToTextureLayoutID[fdidToChrModel[modelFileDataID]]

LayerOf(layout, element) ==
    Get(chrModelTexLayer[layout],
        chrCustMatMap[element.ChrCustomizationMaterialID].ChrModelTextureTargetID)

FileOf(element) ==
    Get(matResIDToFileDataID, chrCustMatMap[element.ChrCustomizationMaterialID].MaterialResourcesID)

SectionsOf(layout) ==
    {charComponentTextureSectionMap[layout][t] : t \in DOMAIN charComponentTextureSectionMap[layout]}

PaintedSections(layout, layer) ==
    {sec \in SectionsOf(layout) : (layer.TextureSectionTypeBitMask \div Pow2(sec.SectionType)) % 2 = 1}

\* C4: a choice bound to one material whose layer has a mask other than -1
\* gets one entry per section whose bit is set, each at that section's
\* rectangle, and none for a section whose bit is unset.
C4_OneEntryPerPaintedSection ==
    (/\ ret.op = "getSkinMaterialsForChoice"
     /\ ret.at = "done"
     /\ ret.out.kind = "value"
     /\ Len(choiceToChrCustMaterialID[ret.choiceID]) = 1
     /\ LayerOf(LayoutOf(ret.modelFileDataID), choiceToChrCustMaterialID[ret.choiceID][1]) # <<>>
     /\ LayerOf(LayoutOf(ret.modelFileDataID),
                choiceToChrCustMaterialID[ret.choiceID][1])[1].TextureSectionTypeBitMask >= 0)
    => LET layout   == LayoutOf(ret.modelFileDataID)
           element  == choiceToChrCustMaterialID[ret.choiceID][1]
           layer    == LayerOf(layout, element)[1]
           skinMats == ret.out.skinMats
       IN  {<<skinMats[k].position, skinMats[k].size>> : k \in DOMAIN skinMats}
             = {<<(<<sec.X, sec.Y>>), (<<sec.Width, sec.Height>>)>> :
                    sec \in PaintedSections(layout, layer)}

\* Whether a bound element writes an entry at all: its layer exists and is
\* either a whole-atlas layer or paints some section of the layout.
Writes(layout, element) ==
    /\ LayerOf(layout, element) # <<>>
    /\ \/ LayerOf(layout, element)[1].TextureSectionTypeBitMask = -1
       \/ PaintedSections(layout, LayerOf(layout, element)[1]) # {}

\* C5: in a result of getSkinMaterialsForChoice, a bound element whose layer
\* has the mask -1 leaves exactly one entry, at the layer's ordinal, with
\* position (0,0) and size (1024,512), however many sections the layout has
\* (unless a later element of the choice writes the same ordinal).
C5_SentinelMask ==
    (ret.op = "getSkinMaterialsForChoice" /\ ret.out.kind = "value")
    => LET layout    == LayoutOf(ret.modelFileDataID)
           materials == choiceToChrCustMaterialID[ret.choiceID]
           skinMats  == ret.out.skinMats
       IN  \A i \in 1..Len(materials) :
              (/\ LayerOf(layout, materials[i]) # <<>>
               /\ LayerOf(layout, materials[i])[1].TextureSectionTypeBitMask = -1
               /\ \A j \in (i + 1)..Len(materials) :
                     Writes(layout, materials[j]) =>
                        LayerOf(layout, materials[j])[1].Layer # LayerOf(layout, materials[i])[1].Layer)
              => LET layer == LayerOf(layout, materials[i])[1]
                 IN  /\ Has(skinMats, layer.Layer)
                     /\ skinMats[layer.Layer] =
                           [TextureType |-> layer.TextureType, FileDataID |-> FileOf(materials[i]),
                            size |-> <<1024, 512>>, position |-> <<0, 0>>]
                     /\ Len(materials) = 1 => Cardinality(DOMAIN skinMats) = 1

C5_Witness ==
    /\ ret.op = "getSkinMaterialsForChoice"
    /\ ret.out.kind = "value"
    /\ Len(choiceToChrCustMaterialID[ret.choiceID]) = 1
    /\ LayerOf(LayoutOf(ret.modelFileDataID),
               choiceToChrCustMaterialID[ret.choiceID][1])[1].TextureSectionTypeBitMask = -1
    /\ Cardinality(SectionsOf(LayoutOf(ret.modelFileDataID))) = 3
    /\ Cardinality(DOMAIN ret.out.skinMats) = 1

\* The current selections as a set, and the candidates of a choice that
\* match one of them on their related choice.
Selected == {modelViewerChrCustCurrent[i] : i \in 1..Len(modelViewerChrCustCurrent)}

Matching(availableChoices) ==
    {i \in 1..Len(availableChoices) :
        availableChoices[i].RelatedChrCustomizationChoiceID \in Selected}

\* The file a material id resolves to through the material and resource indices.
FileOfMaterial(chrCustMatID) ==
    Get(matResIDToFileDataID, chrCustMatMap[chrCustMatID].MaterialResourcesID)

\* C6: when a choice has several bound material elements and exactly one of
\* them has a related choice among the current selections,
\* getTextureForFileDataIDAndChoice resolves that element's material, first
\* candidate or not, and a texture it returns is that material's file.
C6_ExactMatchSelected ==
    (/\ ret.op = "getTextureForFileDataIDAndChoice"
     /\ Has(choiceToChrCustMaterialID, ret.choiceID)
     /\ Len(choiceToChrCustMaterialID[ret.choiceID]) > 1
     /\ Cardinality(Matching(choiceToChrCustMaterialID[ret.choiceID])) = 1)
    => LET availableChoices == choiceToChrCustMaterialID[ret.choiceID]
           i == CHOOSE k \in Matching(availableChoices) : TRUE
       IN  /\ ret.chrCustMatID = availableChoices[i].ChrCustomizationMaterialID
           /\ ~ret.fallback
           /\ ret.out.kind = "value" =>
                 <<ret.out.FileDataID>> = FileOfMaterial(availableChoices[i].ChrCustomizationMaterialID)

\* The spec's scenario: candidates [{10, related 7}, {11, related 9}], selections {9}.
C6_Witness ==
    /\ ret.op = "getTextureForFileDataIDAndChoice"
    /\ ret.at = "done"
    /\ ret.choiceID = 5
    /\ Len(choiceToChrCustMaterialID[5]) = 2
    /\ choiceToChrCustMaterialID[5][1].ChrCustomizationMaterialID = 10
    /\ choiceToChrCustMaterialID[5][1].RelatedChrCustomizationChoiceID = 7
    /\ choiceToChrCustMaterialID[5][2].ChrCustomizationMaterialID = 11
    /\ choiceToChrCustMaterialID[5][2].RelatedChrCustomizationChoiceID = 9
    /\ modelViewerChrCustCurrent = <<9>>
    /\ ret.chrCustMatID = 11
    /\ ret.out.kind = "value"

\* The first (selection, candidate) pair that matches, scanning the selections
\* in order and for each the candidates in source order.
FirstMatch(availableChoices) ==
    LET s == CHOOSE k \in 1..Len(modelViewerChrCustCurrent) :
                /\ \E c \in 1..Len(availableChoices) :
                      availableChoices[c].RelatedChrCustomizationChoiceID = modelViewerChrCustCurrent[k]
                /\ \A j \in 1..(k - 1) : \A c \in 1..Len(availableChoices) :
                      availableChoices[c].RelatedChrCustomizationChoiceID # modelViewerChrCustCurrent[j]
        c == CHOOSE k \in 1..Len(availableChoices) :
                /\ availableChoices[k].RelatedChrCustomizationChoiceID = modelViewerChrCustCurrent[s]
                /\ \A j \in 1..(k - 1) :
                      availableChoices[j].RelatedChrCustomizationChoiceID # modelViewerChrCustCurrent[s]
    IN  availableChoices[c]

\* C7: when several (selection, candidate) pairs match, the material resolved
\* is that of the first match in scan order; later matches do not replace it.
C7_FirstMatchWins ==
    (/\ ret.op = "getTextureForFileDataIDAndChoice"
     /\ ret.at = "done"
     /\ Has(choiceToChrCustMaterialID, ret.choiceID)
     /\ Matching(choiceToChrCustMaterialID[ret.choiceID]) # {})
    => ret.chrCustMatID =
          FirstMatch(choiceToChrCustMaterialID[ret.choiceID]).ChrCustomizationMaterialID

\* C8: the fallback is taken (and reported) exactly when no candidate matches
\* a current selection; it resolves the first candidate's material, and a
\* texture returned then is that material's file.
C8_FallbackToFirst ==
    (ret.op = "getTextureForFileDataIDAndChoice" /\ Has(choiceToChrCustMaterialID, ret.choiceID))
    => LET availableChoices == choiceToChrCustMaterialID[ret.choiceID]
       IN  /\ ret.fallback <=> (Matching(availableChoices) = {})
           /\ ret.fallback =>
                 /\ ret.chrCustMatID = availableChoices[1].ChrCustomizationMaterialID
                 /\ ret.out.kind = "value" =>
                       <<ret.out.FileDataID>> = FileOfMaterial(availableChoices[1].ChrCustomizationMaterialID)

\* Two candidates, neither related to a current selection: the first one is used.
C8_Witness ==
    /\ ret.op = "getTextureForFileDataIDAndChoice"
    /\ ret.at = "done"
    /\ ret.choiceID = 5
    /\ Len(choiceToChrCustMaterialID[5]) = 2
    /\ choiceToChrCustMaterialID[5][1].ChrCustomizationMaterialID = 10
    /\ choiceToChrCustMaterialID[5][2].ChrCustomizationMaterialID = 11
    /\ modelViewerChrCustCurrent = <<7>>
    /\ Matching(choiceToChrCustMaterialID[5]) = {}
    /\ ret.fallback
    /\ ret.chrCustMatID = 10
    /\ ret.out.kind = "value"
    /\ ret.out.FileDataID = 30

\* The element rows of the dataset that bind a geoset to a choice.
GeosetElements(choiceID) ==
    {i \in 1..Len(db.ChrCustomizationElement) :
        /\ db.ChrCustomizationElement[i].ChrCustomizationChoiceID = choiceID
        /\ db.ChrCustomizationElement[i].ChrCustomizationGeosetID # 0}

\* C9: once the catalog is built, getGeosetForChoice returns false for a
\* choice without a geoset element; for a choice with one it returns the key
\* of the geoset row the element refers to, and never undefined.
C9_GeosetForChoice ==
    (ret.op = "getGeosetForChoice" /\ ret.at = "done" /\ pc = "done" /\ CustomizationEnabled)
    => IF GeosetElements(ret.choiceID) = {} THEN ret.out.kind = "false"
       ELSE /\ ret.out.kind # "undefined"
            /\ \E i \in GeosetElements(ret.choiceID) :
                  \E g \in 1..Len(db.ChrCustomizationGeoset) :
                     /\ db.ChrCustomizationGeoset[g].ID =
                           db.ChrCustomizationElement[i].ChrCustomizationGeosetID
                     /\ ret.out = GeosetKey(db.ChrCustomizationGeoset[g])

InRange(geosetRow) == geosetRow.GeosetType \in 0..99 /\ geosetRow.GeosetID \in 0..99

\* C10: the key stored for a geoset row with group and variant in 0..99 is
\* group*100 + variant, and two such rows with different (group, variant)
\* have different keys.
C10_GeosetKeyEncoding ==
    LET rows == db.ChrCustomizationGeoset
    IN  /\ \A g \in 1..Len(rows) :
              (Has(geosetMap, rows[g].ID) /\ InRange(rows[g]))
              => geosetMap[rows[g].ID] =
                    [kind |-> "number", v |-> rows[g].GeosetType * 100 + rows[g].GeosetID]
        /\ \A g \in 1..Len(rows), h \in 1..Len(rows) :
              (/\ Has(geosetMap, rows[g].ID) /\ InRange(rows[g])
               /\ Has(geosetMap, rows[h].ID) /\ InRange(rows[h])
               /\ geosetMap[rows[g].ID] = geosetMap[rows[h].ID])
              => (rows[g].GeosetType = rows[h].GeosetType /\ rows[g].GeosetID = rows[h].GeosetID)

\* The spec's examples: group 1, variant 5 is 105; group 12, variant 3 is 1203.
C10_Witness ==
    /\ pc = "done"
    /\ db.ChrCustomizationGeoset[1].GeosetType = 1
    /\ db.ChrCustomizationGeoset[1].GeosetID = 5
    /\ db.ChrCustomizationGeoset[2].GeosetType = 12
    /\ db.ChrCustomizationGeoset[2].GeosetID = 3
    /\ geosetMap[1] = [kind |-> "number", v |-> 105]
    /\ geosetMap[2] = [kind |-> "number", v |-> 1203]

Lookups == {"isFileDataIDCharacterModel", "getChrModelIDByFileDataID",
            "getChrComponentTextureLayoutIDByChrModelID", "getOptionsByChrModelID",
            "getChoicesByOption", "getTextureTargetByChrCustomizationMaterialID"}

GateOff == ~config.enableCharacterCustomization \/ ~config.hasChrModel

\* C11: with the configuration flag unset or the ChrModel table absent from
\* the listfile, at every point of loadTables and after it no customization
\* index holds anything, isCharacterCustomizationAvailable() is false, and
\* every resolver and lookup returns false or undefined, never an exception.
C11_FeatureGate ==
    GateOff =>
        /\ NoCustomizationIndex
        /\ ~isCharacterCustomizationAvailable
        /\ ret.op = "isCharacterCustomizationAvailable" => ret.out = FALSE
        /\ ret.op \in Resolvers => ret.out.kind = "false"
        /\ ret.op \in Lookups => ret.out.kind \in {"false", "undefined"}

\* The flag is set, the table is absent, loadTables has returned and a texture
\* was asked for.
C11_Witness ==
    /\ config.enableCharacterCustomization /\ ~config.hasChrModel
    /\ pc = "done"
    /\ ret.op = "getTextureForFileDataIDAndChoice"
    /\ ret.out.kind = "false"

SameCall(a, b) ==
    /\ a.op = b.op
    /\ a.modelFileDataID = b.modelFileDataID
    /\ a.choiceID = b.choiceID

\* C12: a query changes no index and not the availability flag; and after
\* loadTables has returned, a call of getSkinMaterialsForChoice or of
\* getTextureForFileDataIDAndChoice returns what an earlier call with the
\* same arguments and the same selections returned, whatever queries were
\* made in between.
C12_QueriesRepeatable ==
    /\ [][ret'.op # "none" => UNCHANGED <<indices, chrCustomizationAvailable>>]_vars
    /\ []((memo.op # "none" /\ SameCall(memo, ret)) =>
             /\ ret.out = memo.out
             /\ ret.op = "getTextureForFileDataIDAndChoice" =>
                    /\ ret.chrCustMatID = memo.chrCustMatID
                    /\ ret.fallback = memo.fallback)

\* A kept texture that came from the fallback material, and the same call made again.
C12_Witness ==
    /\ memo.op = "getTextureForFileDataIDAndChoice"
    /\ memo.fallback
    /\ memo.out.kind = "value"
    /\ SameCall(memo, ret)
    /\ ret.out.kind = "value"

\* The mesh -> displays index as one run of loadTables over db builds it.
SingleRunCreatureDisplays ==
    BuildCreatureDisplays(db.CreatureModelData,
        BuildModelIDToDisplayInfoMap(db.CreatureDisplayInfo, EmptyMap),
        BuildCreatureDisplayInfoMap(db.CreatureDisplayInfo, EmptyMap),
        BuildCreatureGeosetMap(db.CreatureDisplayInfoGeosetData, EmptyMap),
        EmptyMap)

\* The choice -> material elements index as one run of loadTables over db builds it.
SingleRunChoiceToChrCustMaterialID ==
    IF ~CustomizationEnabled THEN EmptyMap
    ELSE IF ChrModelLoop(db.ChrModel, db,
                         [fdid |-> EmptyMap, layout |-> EmptyMap, opts |-> EmptyMap,
                          choices |-> EmptyMap, thrown |-> FALSE]).thrown
    THEN EmptyMap
    ELSE ElementLoop(db.ChrCustomizationElement, db.ChrCustomizationMaterial,
                     [geo |-> EmptyMap, mat |-> EmptyMap, cmm |-> EmptyMap,
                      thrown |-> FALSE]).mat

\* C13: when loadTables has returned, however many times it has run over the
\* same tables, the mesh -> displays index and the choice -> material
\* elements index hold what a single run builds.
C13_ReloadIdempotent ==
    pc = "done" =>
        /\ creatureDisplays = SingleRunCreatureDisplays
        /\ choiceToChrCustMaterialID = SingleRunChoiceToChrCustMaterialID

\* The mesh file of a ChrModel row: <<id>>, or <<>> when its display row or
\* that row's mesh-data row does not exist.
FileOfChrModel(chrModelRow) ==
    LET displayRow == GetRow(db.CreatureDisplayInfo, chrModelRow.DisplayID)
        modelRow == GetRow(db.CreatureModelData, displayRow[1].ModelID)
    IN  IF displayRow = <<>> \/ modelRow = <<>> THEN <<>> ELSE <<modelRow[1].FileDataID>>

\* C14: a row with a zero or dangling foreign key does not stop loadTables:
\* it is rejected only by a rejected parse(), and when it has returned with
\* the feature on, every ChrModel row whose display and mesh-data rows exist
\* is in the mesh -> model index and every material an element references
\* and that exists is in the material index.
C14_DanglingRowsSkipped ==
    /\ pc = "failed" => err = "parse"
    /\ (pc = "done" /\ CustomizationEnabled) =>
          /\ \A i \in 1..Len(db.ChrModel) :
                FileOfChrModel(db.ChrModel[i]) # <<>> =>
                    Has(fdidToChrModel, FileOfChrModel(db.ChrModel[i])[1])
          /\ \A i \in 1..Len(db.ChrCustomizationElement) :
                LET id == db.ChrCustomizationElement[i].ChrCustomizationMaterialID
                IN  (id # 0 /\ GetRow(db.ChrCustomizationMaterial, id) # <<>>) =>
                        Has(chrCustMatMap, id)

\* C15: after loadTables has returned, a resolver called for a choice that
\* has material elements does not throw, whether or not the model's layout
\* has a texture layer for the material's target, or any layer row at all.
C15_MissingLayerNoException ==
    (/\ ret.op \in {"getSkinMaterialsForChoice", "getTextureForFileDataIDAndChoice"}
     /\ ret.at = "done"
     /\ Has(choiceToChrCustMaterialID, ret.choiceID)) =>
        ret.out.kind # "throw"

\* The writes of a call in iteration order: <<i, t>> stands for element i of
\* the choice and section type t of the layout, with i's layer present and
\* either a whole-atlas layer or one whose mask has bit t.
SkinWrites(layout, materials) ==
    {w \in (1..Len(materials)) \X (DOMAIN charComponentTextureSectionMap[layout]) :
        /\ LayerOf(layout, materials[w[1]]) # <<>>
        /\ LET layer == LayerOf(layout, materials[w[1]])[1]
           IN  \/ layer.TextureSectionTypeBitMask = -1
               \/ charComponentTextureSectionMap[layout][w[2]] \in PaintedSections(layout, layer)}

WriteOrdinal(layout, materials, w) == LayerOf(layout, materials[w[1]])[1].Layer

\* What write w stores.
WriteEntry(layout, materials, w) ==
    LET layer == LayerOf(layout, materials[w[1]])[1]
        sec == charComponentTextureSectionMap[layout][w[2]]
    IN  [TextureType |-> layer.TextureType, FileDataID |-> FileOf(materials[w[1]]),
         size |-> IF layer.TextureSectionTypeBitMask = -1 THEN <<1024, 512>>
                  ELSE <<sec.Width, sec.Height>>,
         position |-> IF layer.TextureSectionTypeBitMask = -1 THEN <<0, 0>>
                      ELSE <<sec.X, sec.Y>>]

Earlier(v, w) == v[1] < w[1] \/ (v[1] = w[1] /\ v[2] < w[2])

\* C16: a result of getSkinMaterialsForChoice holds an entry at exactly the
\* ordinals some write goes to, and the entry at an ordinal is that of the
\* last write to it, elements in list order and sections ascending.
C16_LastWriteWins ==
    (ret.op = "getSkinMaterialsForChoice" /\ ret.out.kind = "value")
    => LET layout    == LayoutOf(ret.modelFileDataID)
           materials == choiceToChrCustMaterialID[ret.choiceID]
           skinMats  == ret.out.skinMats
           writes    == SkinWrites(layout, materials)
       IN  /\ DOMAIN skinMats = {WriteOrdinal(layout, materials, w) : w \in writes}
           /\ \A w \in writes :
                 (\A v \in writes :
                     WriteOrdinal(layout, materials, v) = WriteOrdinal(layout, materials, w)
                         => (v = w \/ Earlier(v, w)))
                 => skinMats[WriteOrdinal(layout, materials, w)] = WriteEntry(layout, materials, w)

\* Two elements of the choice write ordinal 0, the second after the first,
\* and the result holds the entry of the second.
C16_Witness ==
    /\ ret.op = "getSkinMaterialsForChoice"
    /\ ret.out.kind = "value"
    /\ LET layout    == LayoutOf(ret.modelFileDataID)
           materials == choiceToChrCustMaterialID[ret.choiceID]
           writes    == SkinWrites(layout, materials)
       IN  /\ Len(materials) = 2
           /\ \E v, w \in writes :
                 /\ v[1] = 1 /\ w[1] = 2
                 /\ WriteOrdinal(layout, materials, v) = 0
                 /\ WriteOrdinal(layout, materials, w) = 0
                 /\ WriteEntry(layout, materials, v) # WriteEntry(layout, materials, w)
           /\ ret.out.skinMats[0].TextureType = LayerOf(layout, materials[2])[1].TextureType

\* C17: every entry of a result of getSkinMaterialsForChoice carries a file
\* id: an element whose material's texture resource is not in the resource
\* index leaves no entry.
C17_EntriesHaveFile ==
    (ret.op = "getSkinMaterialsForChoice" /\ ret.at = "done" /\ ret.out.kind = "value")
    => \A k \in DOMAIN ret.out.skinMats : ret.out.skinMats[k].FileDataID # <<>>

\* Where exportAsOBJ stands before its cancellation check of line 156 has run.
BeforeLastCheck == {"idle", "obj.load", "obj.getSkin", "tex.load", "tex.fileExists",
                    "tex.getFile", "tex.saveToPNG", "obj.exportTextures"}

\* C18: once helper.isCancelled() returns true and stays true,
\* exportTextures begins no further texture: the only getFile or saveToPNG
\* call still made is for the texture whose iteration was already past its
\* check, and none is made once a check has seen the cancellation; and
\* exportAsOBJ, cancelled at any point up to its check of line 156, calls
\* write() on none of the OBJ, MTL, JSON and collision writers and, once a
\* check has seen the cancellation, returns without throwing.
C18_CancellationStopsExport ==
    /\ [][cancelled =>
            /\ fetched' # fetched =>
                  /\ xpc = "tex.fileExists"
                  /\ texIndex' = texIndex
                  /\ fetched' = Append(fetched, m2.textures[texIndex])
            /\ written' # written =>
                  /\ xpc = "tex.getFile"
                  /\ texIndex' = texIndex
                  /\ written' = Append(written, m2.textures[texIndex])]_vars
    /\ [][observed => (fetched' = fetched /\ written' = written /\ files' = files
                       /\ xpc' \in {"obj.exportTextures", "returned"})]_vars
    /\ []((cancelled /\ cancelledAt \in BeforeLastCheck) => files = {})
    /\ [](observed => (files = {} /\ xpc \in {"obj.exportTextures", "returned"}))

\* The export was cancelled while its first texture was being saved: the
\* check of the second iteration saw it, the second texture was neither
\* fetched nor written, and exportAsOBJ has returned with no file written.
C18_Witness ==
    /\ cancelledAt = "tex.saveToPNG"
    /\ observed
    /\ xpc = "returned"
    /\ Len(m2.textures) = 2
    /\ m2.textures[2] > 0
    /\ texIndex = 2
    /\ Len(fetched) = 1
    /\ Len(written) = 1
    /\ validTextures.kind = "undefined"
    /\ files = {}

====
